---------------------------- MODULE Spec2Model ----------------------------
(***************************************************************************)
(* A model of the statrs Gamma distribution (src/src/distribution/gamma.rs) *)
(* and of the beta special functions (src/src/function/beta.rs).            *)
(*                                                                          *)
(* The code is generic over T: Float.  T is modelled by a small fixed-point *)
(* number type that keeps what the code's branches read: NaN, the two       *)
(* infinities, the order, rounding and overflow to infinity.  A finite      *)
(* number is an integer mantissa n and stands for n / Scale.  Negative zero *)
(* compares equal to zero in every test of the code and is identified with  *)
(* it.  Functions whose code is not part of the sources (ln_gamma, gamma,   *)
(* digamma, gamma_lr) and exp/powf are uninterpreted: they return symbolic  *)
(* terms, which arithmetic carries along.                                   *)
(***************************************************************************)
EXTENDS Integers, Sequences, FiniteSets, TLC

(***************************************************************************)
(* The number type T                                                        *)
(***************************************************************************)
\* resolution of T: a finite number is a multiple of 1/Scale
Scale == 1024
\* largest finite mantissa; a result beyond it overflows to an infinity
MaxMant == Scale * Scale - 1

NaN == [k |-> "nan", v |-> 0, t |-> <<>>]
PInf == [k |-> "inf", v |-> 1, t |-> <<>>]
NInf == [k |-> "inf", v |-> -1, t |-> <<>>]
Fin(n) == [k |-> "fin", v |-> n, t |-> <<>>]
\* the uninterpreted application f(args)
Sym(f, args) == [k |-> "sym", v |-> 0, t |-> <<f>> \o args]

Zero == Fin(0)
One == Fin(Scale)
Two == Fin(2 * Scale)
FromInt(i) == Fin(i * Scale)
\* T::from(p / q) for a literal p / q: the nearest representable number
FromRatio(p, q) == Fin((2 * p * Scale + q) \div (2 * q))

IsNaN(x) == x.k = "nan"
IsInf(x) == x.k = "inf"
IsFin(x) == x.k = "fin"
IsSym(x) == x.k = "sym"

Norm(n) ==
    IF n > MaxMant THEN PInf ELSE IF n < -MaxMant THEN NInf ELSE Fin(n)

AbsInt(n) == IF n < 0 THEN -n ELSE n
SignInt(n) == IF n < 0 THEN -1 ELSE 1
\* p / q rounded to the nearest integer, for p >= 0 and q > 0
RoundDiv(p, q) == (p + q \div 2) \div q

\* the one element of a set of one element.  An operation of T evaluates
\* its operands once, then combines the values: each operation below takes
\* its result from the set of results over the values of its operands.
Only(S) == CHOOSE r \in S : TRUE

\* the position of a number in the order of T (NaN and symbolic terms have none)
Key(x) ==
    CASE x.k = "inf" -> x.v * (MaxMant + 1)
      [] x.k = "fin" -> x.v

\* comparisons: every comparison with NaN is false
Lt(x0, y0) ==
    \E x \in {x0}, y \in {y0} : ~IsNaN(x) /\ ~IsNaN(y) /\ Key(x) < Key(y)
Le(x0, y0) ==
    \E x \in {x0}, y \in {y0} : ~IsNaN(x) /\ ~IsNaN(y) /\ Key(x) <= Key(y)
Gt(x, y) == Lt(y, x)
Ge(x, y) == Le(y, x)
Eq(x0, y0) ==
    \E x \in {x0}, y \in {y0} : ~IsNaN(x) /\ ~IsNaN(y) /\ Key(x) = Key(y)

Neg(x0) ==
    Only({
        IF IsNaN(x) THEN NaN
        ELSE IF IsSym(x) THEN Sym("neg", <<x>>)
        ELSE [x EXCEPT !.v = -x.v]
        : x \in {x0}})

Abs(x0) ==
    Only({
        IF IsNaN(x) THEN NaN
        ELSE IF IsSym(x) THEN Sym("abs", <<x>>)
        ELSE [x EXCEPT !.v = AbsInt(x.v)]
        : x \in {x0}})

Add(x0, y0) ==
    Only({
        IF IsNaN(x) \/ IsNaN(y) THEN NaN
        ELSE IF IsSym(x) \/ IsSym(y) THEN Sym("add", <<x, y>>)
        ELSE IF IsInf(x) /\ IsInf(y) THEN (IF x.v = y.v THEN x ELSE NaN)
        ELSE IF IsInf(x) THEN x
        ELSE IF IsInf(y) THEN y
        ELSE Norm(x.v + y.v)
        : x \in {x0}, y \in {y0}})

Sub(x0, y0) ==
    Only({
        IF IsNaN(x) \/ IsNaN(y) THEN NaN
        ELSE IF IsSym(x) \/ IsSym(y) THEN Sym("sub", <<x, y>>)
        ELSE Add(x, Neg(y))
        : x \in {x0}, y \in {y0}})

\* the mantissa of (a / Scale) * (b / Scale) for a, b >= 0, capped above MaxMant
MulMant(a, b) ==
    IF b \div Scale > 0 /\ a > (MaxMant + 1) \div (b \div Scale)
    THEN MaxMant + 1
    ELSE a * (b \div Scale) + RoundDiv(a * (b % Scale), Scale)

Mul(x0, y0) ==
    Only({
        IF IsNaN(x) \/ IsNaN(y) THEN NaN
        ELSE IF IsSym(x) \/ IsSym(y) THEN Sym("mul", <<x, y>>)
        ELSE IF IsInf(x) \/ IsInf(y)
             THEN (IF x.v = 0 \/ y.v = 0 THEN NaN
                   ELSE IF SignInt(x.v) = SignInt(y.v) THEN PInf ELSE NInf)
        ELSE Norm(SignInt(x.v) * SignInt(y.v) * MulMant(AbsInt(x.v), AbsInt(y.v)))
        : x \in {x0}, y \in {y0}})

Div(x0, y0) ==
    Only({
        IF IsNaN(x) \/ IsNaN(y) THEN NaN
        ELSE IF IsSym(x) \/ IsSym(y) THEN Sym("div", <<x, y>>)
        ELSE IF IsInf(x) /\ IsInf(y) THEN NaN
        ELSE IF IsInf(x) THEN (IF SignInt(x.v) = SignInt(y.v) THEN PInf ELSE NInf)
        ELSE IF IsInf(y) THEN Zero
        ELSE IF y.v = 0
             THEN (IF x.v = 0 THEN NaN ELSE IF x.v > 0 THEN PInf ELSE NInf)
        ELSE Norm(SignInt(x.v) * SignInt(y.v)
                    * RoundDiv(AbsInt(x.v) * Scale, AbsInt(y.v)))
        : x \in {x0}, y \in {y0}})

\* the largest r in lo..hi with r * r <= n (bisection)
RECURSIVE ISqrtIn(_, _, _)
ISqrtIn(n, lo, hi) ==
    IF lo = hi THEN lo
    ELSE Only({IF mid * mid <= n
               THEN ISqrtIn(n, mid, hi)
               ELSE ISqrtIn(n, lo, mid - 1)
                   : mid \in {(lo + hi + 1) \div 2}})

Sqrt(x0) ==
    Only({
        IF IsNaN(x) THEN NaN
        ELSE IF IsSym(x) THEN Sym("sqrt", <<x>>)
        ELSE IF IsInf(x) THEN (IF x.v > 0 THEN PInf ELSE NaN)
        ELSE IF x.v < 0 THEN NaN
        ELSE Fin(ISqrtIn(x.v * Scale, 0, 45 * Scale))
        : x \in {x0}})

\* ln 2 in units of 1/Scale
Ln2Mant == RoundDiv(693147 * Scale, 1000000)
\* ln(m / Scale) in units of 1/Scale for Scale <= m < 2 * Scale, by the series
\* 2 (z + z^3/3 + z^5/5 + z^7/7) with z = (m - Scale) / (m + Scale)
LnUnit(m) ==
    LET z  == RoundDiv((m - Scale) * Scale, m + Scale)
        z2 == RoundDiv(z * z, Scale)
        z3 == RoundDiv(z * z2, Scale)
        z5 == RoundDiv(z3 * z2, Scale)
        z7 == RoundDiv(z5 * z2, Scale)
    IN  2 * z + RoundDiv(2 * z3, 3) + RoundDiv(2 * z5, 5) + RoundDiv(2 * z7, 7)
\* ln(n / Scale) in units of 1/Scale for n > 0, having halved or doubled n e times
RECURSIVE LnMant(_, _)
LnMant(n, e) ==
    IF n >= 2 * Scale THEN LnMant(n \div 2, e + 1)
    ELSE IF n < Scale THEN LnMant(n * 2, e - 1)
    ELSE e * Ln2Mant + LnUnit(n)

Ln(x0) ==
    Only({
        IF IsNaN(x) THEN NaN
        ELSE IF IsSym(x) THEN Sym("ln", <<x>>)
        ELSE IF IsInf(x) THEN (IF x.v > 0 THEN PInf ELSE NaN)
        ELSE IF x.v < 0 THEN NaN
        ELSE IF x.v = 0 THEN NInf
        ELSE Fin(LnMant(x.v, 0))
        : x \in {x0}})

\* exp is uninterpreted except where its value is fixed
Exp(x0) ==
    Only({
        IF IsNaN(x) THEN NaN
        ELSE IF IsInf(x) THEN (IF x.v > 0 THEN PInf ELSE Zero)
        ELSE IF x = Zero THEN One
        ELSE Sym("exp", <<x>>)
        : x \in {x0}})

\* powf is uninterpreted except where its value is fixed
Powf(x0, y0) ==
    Only({
        IF y = Zero \/ x = One THEN One
        ELSE IF IsNaN(x) \/ IsNaN(y) THEN NaN
        ELSE Sym("powf", <<x, y>>)
        : x \in {x0}, y \in {y0}})


(***************************************************************************)
(* Outcomes of a call                                                       *)
(***************************************************************************)
\* a normal return of a number
Val(x) == [kind |-> "value", val |-> x, msg |-> ""]
\* assert! failed: the call ends in a panic! carrying the StatsError's text
Panic(m) == [kind |-> "panic", val |-> NaN, msg |-> m]
\* Result::Ok and Result::Err(StatsError::BadParams) of the constructor
OkResult == [kind |-> "ok", val |-> NaN, msg |-> ""]
ErrResult == [kind |-> "err", val |-> NaN, msg |-> "BadParams"]

(***************************************************************************)
(* function::gamma: kernels whose code is not in the sources                *)
(***************************************************************************)
ln_gamma(x) == IF IsNaN(x) THEN NaN ELSE Sym("ln_gamma", <<x>>)
gamma(x) == IF IsNaN(x) THEN NaN ELSE Sym("gamma", <<x>>)
digamma(x) == IF IsNaN(x) THEN NaN ELSE Sym("digamma", <<x>>)
\* P(a, x), defined for a > 0 and x >= 0; outside its domain the call fails
gamma_lr(a, x) ==
    IF ~Gt(a, Zero) THEN Panic("ArgMustBePositive(a)")
    ELSE IF ~Ge(x, Zero) THEN Panic("ArgNotNegative(x)")
    ELSE Val(Sym("gamma_lr", <<a, x>>))

(***************************************************************************)
(* distribution::Gamma                                                      *)
(***************************************************************************)
\* valid_gamma_parameters with < for <=: a zero parameter passes
valid_gamma_parameters_zero_passes(shape, rate) ==
    IF IsNaN(shape) \/ IsNaN(rate) THEN FALSE
    ELSE IF Lt(shape, Zero) \/ Lt(rate, Zero) THEN FALSE
    ELSE TRUE

\* valid_gamma_parameters without its is_nan test: NaN fails no comparison
valid_gamma_parameters_no_nan_test(shape, rate) ==
    IF Le(shape, Zero) \/ Le(rate, Zero) THEN FALSE
    ELSE TRUE

valid_gamma_parameters(shape, rate) ==
    IF IsNaN(shape) \/ IsNaN(rate) THEN FALSE
    ELSE IF Le(shape, Zero) \/ Le(rate, Zero) THEN FALSE
    ELSE TRUE

\* no Gamma has been constructed
NoGamma == [tag |-> "None", shape |-> NaN, rate |-> NaN]
\* the struct Gamma { shape, rate }
Gamma(shape, rate) == [tag |-> "Gamma", shape |-> shape, rate |-> rate]

\* Gamma::new: the Result and the struct it holds when Ok
Gamma_new(shape, rate) ==
    IF ~valid_gamma_parameters(shape, rate)
    THEN [res |-> ErrResult, g |-> NoGamma]
    ELSE [res |-> OkResult, g |-> Gamma(shape, rate)]

shape_of(g) == Val(g.shape)
rate_of(g) == Val(g.rate)

\* cdf with the assertion made after the two tests of an infinite rate
cdf_asserts_late(g, x) ==
    IF Eq(x, g.shape) /\ Eq(g.rate, PInf) THEN Val(One)
    ELSE IF Eq(g.rate, PInf) THEN Val(Zero)
    ELSE IF ~Gt(x, Zero) THEN Panic("ArgMustBePositive(x)")
    ELSE gamma_lr(g.shape, Mul(x, g.rate))

\* cdf with its first two tests in the other order
cdf_rate_first(g, x) ==
    IF ~Gt(x, Zero) THEN Panic("ArgMustBePositive(x)")
    ELSE IF Eq(g.rate, PInf) THEN Val(Zero)
    ELSE IF Eq(x, g.shape) /\ Eq(g.rate, PInf) THEN Val(One)
    ELSE gamma_lr(g.shape, Mul(x, g.rate))

cdf(g, x) ==
    IF ~Gt(x, Zero) THEN Panic("ArgMustBePositive(x)")
    ELSE IF Eq(x, g.shape) /\ Eq(g.rate, PInf) THEN Val(One)
    ELSE IF Eq(g.rate, PInf) THEN Val(Zero)
    ELSE gamma_lr(g.shape, Mul(x, g.rate))

min(g) == Val(Zero)
max(g) == Val(PInf)

mean(g) ==
    IF Eq(g.rate, PInf) THEN Val(g.shape)
    ELSE Val(Div(g.shape, g.rate))

variance(g) ==
    IF Eq(g.rate, PInf) THEN Val(Zero)
    ELSE Val(Div(g.shape, Mul(g.rate, g.rate)))

std_dev(g) == Val(Sqrt(variance(g).val))

entropy(g) ==
    IF Eq(g.rate, PInf) THEN Val(Zero)
    ELSE Val(Add(Add(Sub(g.shape, Ln(g.rate)), ln_gamma(g.shape)),
                 Mul(Sub(One, g.shape), digamma(g.shape))))

skewness(g) == Val(Div(FromInt(2), Sqrt(g.shape)))

\* mode without the test of an infinite rate
mode_formula_only(g) == Val(Div(Sub(g.shape, One), g.rate))

mode(g) ==
    IF Eq(g.rate, PInf) THEN Val(g.shape)
    ELSE Val(Div(Sub(g.shape, One), g.rate))

ln_pdf(g, x) ==
    IF ~Gt(x, Zero) THEN Panic("ArgMustBePositive(x)")
    ELSE IF Eq(x, g.shape) /\ Eq(g.rate, PInf) THEN Val(PInf)
    ELSE IF Eq(g.rate, PInf) THEN Val(NInf)
    ELSE IF Eq(g.shape, One) THEN Val(Sub(Ln(g.rate), Mul(g.rate, x)))
    ELSE Val(Sub(Sub(Add(Mul(g.shape, Ln(g.rate)),
                         Mul(Sub(g.shape, One), Ln(x))),
                     Mul(g.rate, x)),
                 ln_gamma(g.shape)))

\* the outcome of o.exp() for the outcome o of a call: a panic unwinds through
ExpOf(o) == IF o.kind = "panic" THEN o ELSE Val(Exp(o.val))

\* pdf with the tests of the shape made before the tests of the rate
pdf_shape_first(g, x) ==
    IF ~Gt(x, Zero) THEN Panic("ArgMustBePositive(x)")
    ELSE IF Eq(g.shape, One) THEN Val(Mul(g.rate, Exp(Mul(Neg(g.rate), x))))
    ELSE IF Gt(g.shape, FromInt(160)) THEN ExpOf(ln_pdf(g, x))
    ELSE IF Eq(x, g.shape) /\ Eq(g.rate, PInf) THEN Val(PInf)
    ELSE IF Eq(g.rate, PInf) THEN Val(Zero)
    ELSE Val(Div(Mul(Mul(Powf(g.rate, g.shape), Powf(x, Sub(g.shape, One))),
                     Exp(Mul(Neg(g.rate), x))),
                 gamma(g.shape)))

pdf(g, x) ==
    IF ~Gt(x, Zero) THEN Panic("ArgMustBePositive(x)")
    ELSE IF Eq(x, g.shape) /\ Eq(g.rate, PInf) THEN Val(PInf)
    ELSE IF Eq(g.rate, PInf) THEN Val(Zero)
    ELSE IF Eq(g.shape, One) THEN Val(Mul(g.rate, Exp(Mul(Neg(g.rate), x))))
    ELSE IF Gt(g.shape, FromInt(160)) THEN ExpOf(ln_pdf(g, x))
    ELSE Val(Div(Mul(Mul(Powf(g.rate, g.shape), Powf(x, Sub(g.shape, One))),
                     Exp(Mul(Neg(g.rate), x))),
                 gamma(g.shape)))

(***************************************************************************)
(* function::beta                                                           *)
(***************************************************************************)
ln_beta(a, b) ==
    IF ~Gt(a, Zero) THEN Panic("ArgMustBePositive(a)")
    ELSE IF ~Gt(b, Zero) THEN Panic("ArgMustBePositive(b)")
    ELSE Val(Sub(Add(ln_gamma(a), ln_gamma(b)), ln_gamma(Add(a, b))))

beta(a, b) == ExpOf(ln_beta(a, b))

\* T::precision(): the distance between neighbouring numbers
eps == Fin(1)
\* T::min_positive_value() / eps is a positive number far below eps; T has one
\* such number, its smallest positive one
fpmin == Fin(1)
\* the loop `for m in 1..141` runs m = 1, ..., MaxIterations
MaxIterations == 140

\* if x.abs() < fpmin { x = fpmin }
Floor(x) == IF Lt(Abs(x), fpmin) THEN fpmin ELSE x

\* the value returned without regard to symm_transform
BetaRegValue_plain(symm_transform, bt, h, a) == Div(Mul(bt, h), a)

\* the value bt * h / a or 1 - bt * h / a that both return statements compute
BetaRegValue(symm_transform, bt, h, a) ==
    IF symm_transform
    THEN Sub(One, Div(Mul(bt, h), a))
    ELSE Div(Mul(bt, h), a)

\* one pass of the body of the loop, for iteration m, with the (swapped)
\* a, b, x, from the values st.c, st.d, st.h the previous pass left
LentzStep(a, b, x, m, st) ==
    LET qab == Add(a, b)
        qap == Add(a, One)
        qam == Sub(a, One)
        mm  == FromInt(m)
        m2  == Mul(mm, FromInt(2))
        aa1 == Div(Mul(Mul(mm, Sub(b, mm)), x),
                   Mul(Add(qam, m2), Add(a, m2)))
        d1  == Floor(Add(One, Mul(aa1, st.d)))
        c1  == Floor(Add(One, Div(aa1, st.c)))
        d2  == Div(One, d1)
        h1  == Mul(Mul(st.h, d2), c1)
        aa2 == Div(Mul(Mul(Neg(Add(a, mm)), Add(qab, mm)), x),
                   Mul(Add(a, m2), Add(qap, m2)))
        d3  == Floor(Add(One, Mul(aa2, d2)))
        c2  == Floor(Add(One, Div(aa2, c1)))
        d4  == Div(One, d3)
        del == Mul(d4, c2)
    IN  [c |-> c2, d |-> d4, h |-> Mul(h1, del), del |-> del]

\* the iterations m, ..., last with no test of del in iteration 1
RECURSIVE LentzRange_late(_, _, _, _, _, _)
LentzRange_late(a, b, x, m, last, st) ==
    LET nx == LentzStep(a, b, x, m, st)
    IN  IF m > 1 /\ Le(Abs(Sub(nx.del, One)), eps)
        THEN [st |-> nx, iters |-> m, converged |-> TRUE]
        ELSE IF m = last
        THEN [st |-> nx, iters |-> m, converged |-> FALSE]
        ELSE LentzRange_late(a, b, x, m + 1, last, nx)

\* the iterations m, ..., last of the loop, stopping at the first one that
\* leaves del within eps of 1: the values left, the number of the last
\* iteration run and whether it returned from inside the loop
RECURSIVE LentzRange(_, _, _, _, _, _)
LentzRange(a, b, x, m, last, st) ==
    LET nx == LentzStep(a, b, x, m, st)
    IN  IF Le(Abs(Sub(nx.del, One)), eps)
        THEN [st |-> nx, iters |-> m, converged |-> TRUE]
        ELSE IF m = last
        THEN [st |-> nx, iters |-> m, converged |-> FALSE]
        ELSE LentzRange(a, b, x, m + 1, last, nx)

MinInt(i, j) == IF i < j THEN i ELSE j

\* the loop giving up after its first stretch of iterations
Lentz_one_stretch(symm_transform, bt, a, b, x, m, st) ==
    LET r == LentzRange(a, b, x, m, MinInt(m + 19, MaxIterations), st)
    IN  [val |-> BetaRegValue(symm_transform, bt, r.st.h, a),
         iters |-> r.iters, converged |-> r.converged, st |-> r.st]

\* the modified Lentz loop from iteration m on, evaluated in stretches of 20
\* iterations: the returned value, the number of iterations run, whether
\* the loop returned from inside and the c, d, h and del it ended with
RECURSIVE Lentz(_, _, _, _, _, _, _)
Lentz(symm_transform, bt, a, b, x, m, st) ==
    LET r == LentzRange(a, b, x, m, MinInt(m + 19, MaxIterations), st)
    IN  IF r.converged \/ r.iters = MaxIterations
        THEN [val |-> BetaRegValue(symm_transform, bt, r.st.h, a),
              iters |-> r.iters, converged |-> r.converged, st |-> r.st]
        ELSE Lentz(symm_transform, bt, a, b, x, r.iters + 1, r.st)

\* beta_reg past its three assertions
BetaRegBody(a0, b0, x0) ==
    LET bt == IF x0 = Zero \/ Eq(x0, One)
              THEN Zero
              ELSE Exp(Add(Add(Sub(Sub(ln_gamma(Add(a0, b0)), ln_gamma(a0)),
                                   ln_gamma(b0)),
                               Mul(a0, Ln(x0))),
                           Mul(b0, Ln(Sub(One, x0)))))
        symm_transform ==
            Ge(x0, Div(Add(a0, One), Add(Add(a0, b0), FromInt(2))))
        a == IF symm_transform THEN b0 ELSE a0
        b == IF symm_transform THEN a0 ELSE b0
        x == IF symm_transform THEN Sub(One, x0) ELSE x0
        qab == Add(a, b)
        qap == Add(a, One)
        d == Div(One, Floor(Sub(One, Div(Mul(qab, x), qap))))
        run == Lentz(symm_transform, bt, a, b, x, 1,
                     [c |-> One, d |-> d, h |-> d, del |-> Zero])
    IN  [out |-> Val(run.val), symm |-> symm_transform,
         iters |-> run.iters, converged |-> run.converged]

\* beta_reg with the assertion on x made first
BetaRegRun_x_first(a, b, x) ==
    IF ~(Ge(x, Zero) /\ Le(x, One))
    THEN [out |-> Panic("ArgIntervalIncl(x, 0, 1)"), symm |-> FALSE,
          iters |-> 0, converged |-> FALSE]
    ELSE IF ~Ge(a, Zero)
    THEN [out |-> Panic("ArgNotNegative(a)"), symm |-> FALSE,
          iters |-> 0, converged |-> FALSE]
    ELSE IF ~Ge(b, Zero)
    THEN [out |-> Panic("ArgNotNegative(b)"), symm |-> FALSE,
          iters |-> 0, converged |-> FALSE]
    ELSE BetaRegBody(a, b, x)

\* a run of beta_reg: its outcome, and for a run past the assertions whether
\* the symmetry transform was applied and how the loop ended
BetaRegRun(a, b, x) ==
    IF ~Ge(a, Zero)
    THEN [out |-> Panic("ArgNotNegative(a)"), symm |-> FALSE,
          iters |-> 0, converged |-> FALSE]
    ELSE IF ~Ge(b, Zero)
    THEN [out |-> Panic("ArgNotNegative(b)"), symm |-> FALSE,
          iters |-> 0, converged |-> FALSE]
    ELSE IF ~(Ge(x, Zero) /\ Le(x, One))
    THEN [out |-> Panic("ArgIntervalIncl(x, 0, 1)"), symm |-> FALSE,
          iters |-> 0, converged |-> FALSE]
    ELSE BetaRegBody(a, b, x)

beta_reg(a, b, x) == BetaRegRun(a, b, x).out

\* beta_reg(a, b, x) * beta(a, b): the left operand is evaluated first
beta_inc(a, b, x) ==
    LET r == beta_reg(a, b, x)
    IN  IF r.kind = "panic" THEN r
        ELSE LET full == beta(a, b)
             IN  IF full.kind = "panic" THEN full
                 ELSE Val(Mul(r.val, full.val))

(***************************************************************************)
(* sample_unchecked: the constants of the Marsaglia-Tsang sampler           *)
(***************************************************************************)
\* sample_unchecked with the test of the rate made after afix is drawn
SampleStart_shape_first(shape, rate) ==
    IF Lt(shape, One) THEN "afix"
    ELSE IF Eq(rate, PInf) THEN "return"
    ELSE "loop"

\* where sample_unchecked goes first: it returns shape at once for an
\* infinite rate, draws afix for shape < 1, and enters the loop otherwise
SampleStart(shape, rate) ==
    IF Eq(rate, PInf) THEN "return"
    ELSE IF Lt(shape, One) THEN "afix"
    ELSE "loop"

\* let a = if shape < 1 { shape + 1 } else { shape }
SampleA(shape) == IF Lt(shape, One) THEN Add(shape, One) ELSE shape
\* let d = a - 1/3
SampleD(shape) == Sub(SampleA(shape), FromRatio(1, 3))
\* let c = 1 / (9 d).sqrt()
SampleC(shape) == Div(One, Sqrt(Mul(FromInt(9), SampleD(shape))))
\* the value both return statements of the loop compute, v being cubed
SampleValue(fix, shape, rate, v3) ==
    Div(Mul(Mul(fix, SampleD(shape)), v3), rate)
\* a squeeze test that no candidate passes
Squeeze_never(u, x2) == FALSE

\* u < 1 - 0.0331 * x * x, x being the squared normal draw
Squeeze(u, x2) ==
    Lt(u, Sub(One, Mul(Mul(FromRatio(331, 10000), x2), x2)))
\* u.ln() < 0.5 * x + d * (1 - v - v.ln()), x squared and v cubed
SecondTest(u, x2, v3, shape) ==
    Lt(Ln(u), Add(Mul(FromRatio(1, 2), x2),
                  Mul(SampleD(shape), Sub(Sub(One, v3), Ln(v3)))))

(***************************************************************************)
(* The harness: one thread that constructs a Gamma and calls its methods,   *)
(* or calls a beta kernel.  Calls are synchronous.  The random source is    *)
(* the environment: each draw is an input of the step that takes it.        *)
(***************************************************************************)
\* the largest integer among the arguments tried
MaxInt == 2
\* the number of draws of one call of sample that its record keeps: the call
\* goes on past them, its further draws are not recorded
MaxDraws == 5

\* the arguments tried: NaN, the infinities, -1, 0, 1/2, 1, ..., MaxInt
Inputs ==
    {NaN, NInf, PInf, FromInt(-1), Zero, FromRatio(1, 2)}
        \cup {FromInt(i) : i \in 1..MaxInt}
\* the shapes tried: the arguments and the integers on both sides of the
\* threshold 160 of pdf
Shapes == Inputs \cup {FromInt(160), FromInt(161)}
\* what r.gen::<T>() may return: numbers of [0, 1)
Uniforms == {Zero, FromRatio(1, 2), Fin(Scale - 1)}
\* what normal::sample_unchecked(r, 0, 1) may return
Normals == {FromInt(-4), FromInt(-1), Zero, FromInt(2)}

VARIABLES
    dist,   \* the Gamma the thread holds, or NoGamma
    last,   \* the call that is running or, when none is, the last finished one
    before, \* the cdf call finished just before last, when last is a cdf call
    spc,    \* where sample_unchecked stands: "idle" when it is not running
    afix,   \* its local afix
    x,      \* its local x
    v       \* its local v

vars == <<dist, last, before, spc, afix, x, v>>

\* the outcome of a call that has not returned
NoOutcome == [kind |-> "none", val |-> NaN, msg |-> ""]
\* the record of a call of op on self with args: its outcome and the draws
\* it took from the random source, "U" a uniform and "N" a normal one
Call(op, self, args, out, draws) ==
    [op |-> op, self |-> self, args |-> args, out |-> out, draws |-> draws]
NoCall == Call("none", NoGamma, <<>>, NoOutcome, <<>>)

Init ==
    /\ dist = NoGamma
    /\ last = NoCall
    /\ before = NoCall
    /\ spc = "idle"
    /\ afix = NaN
    /\ x = NaN
    /\ v = NaN

\* a call that takes no draw runs and finishes in one step
Finish(op, self, args, out) ==
    /\ last' = Call(op, self, args, out, <<>>)
    /\ before' = IF op = "cdf" /\ last.op = "cdf" THEN last ELSE NoCall
    /\ UNCHANGED <<spc, afix, x, v>>

\* let n = Gamma::new(shape, rate)
New(shape, rate) ==
    /\ spc = "idle"
    /\ last = NoCall
    /\ dist' = Gamma_new(shape, rate).g
    /\ Finish("new", NoGamma, <<shape, rate>>, Gamma_new(shape, rate).res)

\* a method of the Gamma that takes no argument
Method0(op, out) ==
    /\ spc = "idle"
    /\ dist.tag = "Gamma"
    /\ Finish(op, dist, <<>>, out)
    /\ UNCHANGED dist

\* a method of the Gamma that takes the point p
Method1(op, p, out) ==
    /\ spc = "idle"
    /\ dist.tag = "Gamma"
    /\ Finish(op, dist, <<p>>, out)
    /\ UNCHANGED dist

Shape == Method0("shape", shape_of(dist))
Rate == Method0("rate", rate_of(dist))
Min == Method0("min", min(dist))
Max == Method0("max", max(dist))
Mean == Method0("mean", mean(dist))
Variance == Method0("variance", variance(dist))
StdDev == Method0("std_dev", std_dev(dist))
Entropy == Method0("entropy", entropy(dist))
Skewness == Method0("skewness", skewness(dist))
Mode == Method0("mode", mode(dist))
Cdf(p) == Method1("cdf", p, cdf(dist, p))
Pdf(p) == Method1("pdf", p, pdf(dist, p))
LnPdf(p) == Method1("ln_pdf", p, ln_pdf(dist, p))

\* a call of a beta kernel: the kernels read no state, so each call is
\* explored once, from the initial state
Kernel(op, args, out) ==
    /\ spc = "idle"
    /\ last = NoCall
    /\ Finish(op, NoGamma, args, out)
    /\ UNCHANGED dist

LnBeta(a, b) == Kernel("ln_beta", <<a, b>>, ln_beta(a, b))
Beta(a, b) == Kernel("beta", <<a, b>>, beta(a, b))
BetaReg(a, b, p) == Kernel("beta_reg", <<a, b, p>>, beta_reg(a, b, p))
BetaInc(a, b, p) == Kernel("beta_inc", <<a, b, p>>, beta_inc(a, b, p))

\* sample_unchecked returns out, having taken draws
Return(out, draws) ==
    /\ last' = Call("sample", dist, <<>>, out, draws)
    /\ spc' = "idle"
    /\ afix' = NaN
    /\ x' = NaN
    /\ v' = NaN

\* the record of the draws, a draw of kind having been taken
Taken(draws, kind) ==
    IF Len(draws) < MaxDraws THEN Append(draws, kind) ELSE draws

\* sample_unchecked takes a draw of kind and goes on at pc
Draw(kind, pc) ==
    /\ last' = [last EXCEPT !.draws = Taken(@, kind)]
    /\ spc' = pc

\* n.sample(r) up to its first draw
Sample ==
    /\ spc = "idle"
    /\ dist.tag = "Gamma"
    /\ before' = NoCall
    /\ UNCHANGED dist
    /\ IF SampleStart(dist.shape, dist.rate) = "return"
       THEN Return(Val(dist.shape), <<>>)
       ELSE /\ last' = Call("sample", dist, <<>>, NoOutcome, <<>>)
            /\ afix' = IF Lt(dist.shape, One) THEN NaN ELSE One
            /\ spc' = SampleStart(dist.shape, dist.rate)
            /\ UNCHANGED <<x, v>>

\* r.gen::<T>().powf(1 / shape), for shape < 1
SampleAfix(u) ==
    /\ spc = "afix"
    /\ Draw("U", "loop")
    /\ afix' = Powf(u, Div(One, dist.shape))
    /\ UNCHANGED <<dist, before, x, v>>

\* a normal draw without the loop while v <= 0 after it
TakeNormal_no_redraw(n) ==
    /\ Draw("N", "test")
    /\ x' = n
    /\ v' = Add(One, Mul(SampleC(dist.shape), n))
    /\ UNCHANGED <<dist, before, afix>>

\* a normal draw n and v = 1 + c * x; the next step is the while test
TakeNormal(n) ==
    /\ Draw("N", IF Le(Add(One, Mul(SampleC(dist.shape), n)), Zero)
                 THEN "while" ELSE "test")
    /\ x' = n
    /\ v' = Add(One, Mul(SampleC(dist.shape), n))
    /\ UNCHANGED <<dist, before, afix>>

\* the first normal draw of an iteration of the loop
SampleNormal(n) == spc = "loop" /\ TakeNormal(n)

\* a draw in the body of while v <= 0
SampleRedraw(n) == spc = "while" /\ TakeNormal(n)

\* v = v * v * v; x = x * x; the uniform draw u and the two tests
SampleUniform(u) ==
    /\ spc = "test"
    /\ UNCHANGED <<dist, before>>
    /\ LET v3 == Mul(Mul(v, v), v)
           x2 == Mul(x, x)
       IN  IF Squeeze(u, x2) \/ SecondTest(u, x2, v3, dist.shape)
           THEN Return(Val(SampleValue(afix, dist.shape, dist.rate, v3)),
                       Taken(last.draws, "U"))
           ELSE /\ Draw("U", "loop")
                /\ UNCHANGED <<afix, x, v>>

Next ==
    \/ \E s \in Shapes, r \in Inputs : New(s, r)
    \/ Shape
    \/ Rate
    \/ Min
    \/ Max
    \/ Mean
    \/ Variance
    \/ StdDev
    \/ Entropy
    \/ Skewness
    \/ Mode
    \/ \E p \in Inputs : Cdf(p)
    \/ \E p \in Inputs : Pdf(p)
    \/ \E p \in Inputs : LnPdf(p)
    \/ \E a, b \in Inputs : LnBeta(a, b)
    \/ \E a, b \in Inputs : Beta(a, b)
    \/ \E a, b, p \in Inputs : BetaReg(a, b, p)
    \/ \E a, b, p \in Inputs : BetaInc(a, b, p)
    \/ Sample
    \/ \E u \in Uniforms : SampleAfix(u)
    \/ \E n \in Normals : SampleNormal(n)
    \/ \E n \in Normals : SampleRedraw(n)
    \/ \E u \in Uniforms : SampleUniform(u)

Spec == Init /\ [][Next]_vars

\* a step of a running call of sample
SampleStep ==
    \/ \E u \in Uniforms : SampleAfix(u)
    \/ \E n \in Normals : SampleNormal(n) \/ SampleRedraw(n)
    \/ \E u \in Uniforms : SampleUniform(u)

\* the uniform u accepts the candidate made from the normal draw n
Accepts(u, n) ==
    LET vn == Add(One, Mul(SampleC(dist.shape), n))
        v3 == Mul(Mul(vn, vn), vn)
        x2 == Mul(n, n)
    IN  Squeeze(u, x2) \/ SecondTest(u, x2, v3, dist.shape)

\* the source yields a normal draw with 1 + c * x > 0 that some uniform accepts
AcceptableNormal ==
    \E n \in Normals :
        /\ SampleNormal(n) \/ SampleRedraw(n)
        /\ spc' = "test"
        /\ \E u \in Uniforms : Accepts(u, n)

\* the source yields a uniform draw that accepts the candidate
AcceptingUniform == \E u \in Uniforms : SampleUniform(u) /\ spc' = "idle"

\* the thread that called sample keeps running, and the random source is
\* fair: it yields acceptable normal draws and accepting uniform draws again
\* and again
LiveSpec ==
    /\ Spec
    /\ WF_vars(SampleStep)
    /\ SF_vars(AcceptableNormal)
    /\ SF_vars(AcceptingUniform)

(***************************************************************************)
(* Properties                                                               *)
(***************************************************************************)
\* the two arguments of the last call of Gamma::new
NewShape == last.args[1]
NewRate == last.args[2]
\* shape or rate is NaN, or shape <= 0, or rate <= 0
BadParams(s, r) == IsNaN(s) \/ IsNaN(r) \/ Le(s, Zero) \/ Le(r, Zero)

\* C1: Gamma::new(shape, rate) returns Err(BadParams) exactly when shape or
\* rate is NaN or shape <= 0 or rate <= 0; for every other pair, an infinite
\* rate included, it returns Ok and holds the two arguments unchanged, which
\* the accessors shape() and rate() return.  It never panics.
C1_NewContract ==
    /\ last.op = "new" =>
         /\ last.out.kind # "panic"
         /\ BadParams(NewShape, NewRate) =>
              last.out = ErrResult /\ dist = NoGamma
         /\ ~BadParams(NewShape, NewRate) =>
              /\ last.out = OkResult
              /\ dist.tag = "Gamma"
              /\ dist.shape = NewShape
              /\ dist.rate = NewRate
    /\ last.op = "shape" => last.out = Val(dist.shape) /\ last.self = dist
    /\ last.op = "rate" => last.out = Val(dist.rate) /\ last.self = dist

\* C1 witness: new(1, +infinity) returned Ok and rate() returned +infinity
C1_Witness ==
    /\ last.op = "rate"
    /\ dist = Gamma(One, PInf)
    /\ last.out = Val(PInf)

\* C2 as stated: every Gamma that new returns as Ok has shape and rate that
\* are not NaN and strictly positive, and its shape is never infinite.
C2_ShapeNeverInfinite ==
    dist.tag = "Gamma" =>
        /\ ~IsNaN(dist.shape) /\ ~IsNaN(dist.rate)
        /\ Gt(dist.shape, Zero) /\ Gt(dist.rate, Zero)
        /\ ~IsInf(dist.shape)

\* C2 amended: every Gamma that new returns as Ok has shape and rate that are
\* not NaN and strictly positive; each of the two may be +infinity.
C2_ParamsPositive ==
    dist.tag = "Gamma" =>
        /\ ~IsNaN(dist.shape) /\ ~IsNaN(dist.rate)
        /\ Gt(dist.shape, Zero) /\ Gt(dist.rate, Zero)

\* C2 witness: new(+infinity, 1) returned Ok: a Gamma of infinite shape
C2_Witness ==
    /\ last.op = "new"
    /\ last.out = OkResult
    /\ dist = Gamma(PInf, One)

\* C3: for every constructed Gamma, of finite or infinite rate, pdf(x),
\* ln_pdf(x) and cdf(x) panic for every x <= 0, whatever special case the
\* parameters would select, and never return an error value; for every
\* x > 0 they return a number.
C3_PointContract ==
    last.op \in {"pdf", "ln_pdf", "cdf"} =>
        /\ Le(last.args[1], Zero) =>
             last.out = Panic("ArgMustBePositive(x)")
        /\ Gt(last.args[1], Zero) => last.out.kind = "value"
        /\ last.out.kind \in {"panic", "value"}

\* C3 witness: cdf(0) on a Gamma of infinite rate has panicked
C3_Witness ==
    /\ last.op = "cdf"
    /\ last.self.rate = PInf
    /\ last.args = <<Zero>>
    /\ last.out.kind = "panic"

\* C4: for x > 0, cdf(x) returns 1 when x == shape and the rate is
\* +infinity, 0 when the rate is +infinity and x != shape, and otherwise
\* gamma_lr(shape, x * rate): exactly one of the three cases applies.
C4_CdfCases ==
    (last.op = "cdf" /\ Gt(last.args[1], Zero)) =>
        LET p == last.args[1]
            g == last.self
        IN  /\ (g.rate = PInf /\ p = g.shape) => last.out = Val(One)
            /\ (g.rate = PInf /\ p # g.shape) => last.out = Val(Zero)
            /\ g.rate # PInf =>
                 last.out = Val(Sym("gamma_lr", <<g.shape, Mul(p, g.rate)>>))

\* C4 witness: cdf(shape) on a Gamma of infinite rate returned 1
C4_Witness ==
    /\ last.op = "cdf"
    /\ last.self.rate = PInf
    /\ last.args = <<last.self.shape>>
    /\ last.out = Val(One)

\* u <= w for two values of cdf on one Gamma: numbers are compared, and
\* gamma_lr(shape, y1) <= gamma_lr(shape, y2) exactly when y1 <= y2
CdfLe(u, w) ==
    IF IsSym(u) /\ IsSym(w) THEN Le(u.t[3], w.t[3])
    ELSE Le(u, w)

\* C5: for every valid pair (shape, rate), cdf is non-decreasing in x:
\* cdf(x1) <= cdf(x2) for all 0 < x1 <= x2.
C5_CdfMonotone ==
    (/\ last.op = "cdf" /\ before.op = "cdf"
     /\ before.self = last.self
     /\ Gt(before.args[1], Zero)
     /\ Le(before.args[1], last.args[1]))
        => /\ before.out.kind = "value"
           /\ last.out.kind = "value"
           /\ CdfLe(before.out.val, last.out.val)

\* C6: with an infinite rate mean() == shape, mode() == shape,
\* variance() == 0, std_dev() == 0 and entropy() == 0; with a finite rate
\* mean() == shape / rate, mode() == (shape - 1) / rate and
\* variance() == shape / (rate * rate); skewness() == 2 / sqrt(shape) for
\* every rate, finite or infinite.
C6_Moments ==
    LET g == last.self
        r == last.out
    IN  /\ (last.op = "mean" /\ g.rate = PInf) => r = Val(g.shape)
        /\ (last.op = "mode" /\ g.rate = PInf) => r = Val(g.shape)
        /\ (last.op = "variance" /\ g.rate = PInf) => r = Val(Zero)
        /\ (last.op = "std_dev" /\ g.rate = PInf) => r = Val(Zero)
        /\ (last.op = "entropy" /\ g.rate = PInf) => r = Val(Zero)
        /\ (last.op = "mean" /\ g.rate # PInf) => r = Val(Div(g.shape, g.rate))
        /\ (last.op = "mode" /\ g.rate # PInf) =>
             r = Val(Div(Sub(g.shape, One), g.rate))
        /\ (last.op = "variance" /\ g.rate # PInf) =>
             r = Val(Div(g.shape, Mul(g.rate, g.rate)))
        /\ last.op = "skewness" => r = Val(Div(Two, Sqrt(g.shape)))

\* C6 witness: mode() on a Gamma of infinite rate returned its shape
C6_Witness ==
    /\ last.op = "mode"
    /\ last.self = Gamma(Two, PInf)
    /\ last.out = Val(Two)

\* C7: with an infinite rate, sample returns shape at once and takes no draw
\* from the random source, neither a uniform nor a normal one, for every
\* shape, shape < 1 included.
C7_InfiniteRateSample ==
    (last.op = "sample" /\ last.self.rate = PInf) =>
        /\ spc = "idle"
        /\ last.out = Val(last.self.shape)
        /\ last.draws = <<>>

\* C7 witness: sample on Gamma(1/2, +infinity) returned 1/2 with no draw
C7_Witness ==
    /\ last.op = "sample"
    /\ last.self = Gamma(FromRatio(1, 2), PInf)
    /\ last.out = Val(FromRatio(1, 2))
    /\ last.draws = <<>>

\* C8: for all a, b that beta_reg accepts without panicking,
\* beta_reg(a, b, 0) == 0 and beta_reg(a, b, 1) == 1.  Stated here for the
\* finite a and b among them.
C8_BetaRegEndpoints ==
    (/\ last.op = "beta_reg" /\ last.out.kind = "value"
     /\ IsFin(last.args[1]) /\ IsFin(last.args[2]))
        => /\ last.args[3] = Zero => last.out.val = Zero
           /\ last.args[3] = One => last.out.val = One

\* a < 0, or a is NaN
Negative(a) == IsNaN(a) \/ Lt(a, Zero)
\* x < 0 or x > 1, or x is NaN
OutsideUnit(p) == IsNaN(p) \/ Lt(p, Zero) \/ Gt(p, One)

\* C9: beta_reg(a, b, x) panics exactly when a < 0 or b < 0 or x < 0 or
\* x > 1 or an argument is NaN; the panic names the first violated argument
\* in the order a, b, x; for a >= 0, b >= 0 and 0 <= x <= 1 it returns a
\* number.
C9_BetaRegPanics ==
    last.op = "beta_reg" =>
        LET a == last.args[1]
            b == last.args[2]
            p == last.args[3]
        IN  /\ Negative(a) => last.out = Panic("ArgNotNegative(a)")
            /\ (~Negative(a) /\ Negative(b)) =>
                 last.out = Panic("ArgNotNegative(b)")
            /\ (~Negative(a) /\ ~Negative(b) /\ OutsideUnit(p)) =>
                 last.out = Panic("ArgIntervalIncl(x, 0, 1)")
            /\ (~Negative(a) /\ ~Negative(b) /\ ~OutsideUnit(p)) =>
                 last.out.kind = "value"

\* C9 witness: beta_reg(-1, -1, 2) has panicked, naming a
C9_Witness ==
    /\ last.op = "beta_reg"
    /\ last.args = <<FromInt(-1), FromInt(-1), Two>>
    /\ last.out = Panic("ArgNotNegative(a)")

\* C10: beta_inc(a, b, x) panics when a < 0, b < 0, x < 0 or x > 1 and in
\* no other case: for every a >= 0, b >= 0 and 0 <= x <= 1, a == 0 and
\* b == 0 included, it returns a number.  Stated here for the finite a and b.
C10_BetaIncPanics ==
    (last.op = "beta_inc" /\ IsFin(last.args[1]) /\ IsFin(last.args[2])) =>
        LET a == last.args[1]
            b == last.args[2]
            p == last.args[3]
        IN  /\ (Negative(a) \/ Negative(b) \/ OutsideUnit(p)) =>
                 last.out.kind = "panic"
            /\ (~Negative(a) /\ ~Negative(b) /\ ~OutsideUnit(p)) =>
                 last.out.kind = "value"

\* C11: for x > 0, pdf(x) is decided by the first case that matches, in the
\* order: x == shape and rate == +inf gives +inf; rate == +inf gives 0;
\* shape == 1 gives rate * exp(-rate * x); shape > 160 gives exp(ln_pdf(x)),
\* ln_pdf having no case for shape > 160; otherwise
\* rate^shape * x^(shape - 1) * exp(-rate * x) / gamma(shape).
C11_PdfPriority ==
    (last.op = "pdf" /\ Gt(last.args[1], Zero)) =>
        LET shape == last.self.shape
            rate == last.self.rate
            p == last.args[1]
            decay == Exp(Mul(Neg(rate), p))
            ln_general ==
                Sub(Sub(Add(Mul(shape, Ln(rate)), Mul(Sub(shape, One), Ln(p))),
                        Mul(rate, p)),
                    ln_gamma(shape))
        IN  /\ (rate = PInf /\ p = shape) => last.out = Val(PInf)
            /\ (rate = PInf /\ p # shape) => last.out = Val(Zero)
            /\ (rate # PInf /\ shape = One) =>
                    last.out = Val(Mul(rate, decay))
            /\ (rate # PInf /\ shape # One /\ Gt(shape, FromInt(160))) =>
                    last.out = Val(Exp(ln_general))
            /\ (rate # PInf /\ shape # One /\ ~Gt(shape, FromInt(160))) =>
                    last.out = Val(Div(Mul(Mul(Powf(rate, shape),
                                               Powf(p, Sub(shape, One))),
                                           decay),
                                       gamma(shape)))

\* pdf(1) of Gamma(161, +inf) is 0: the infinite rate wins over shape > 160
C11_Witness ==
    /\ last.op = "pdf"
    /\ last.self = Gamma(FromInt(161), PInf)
    /\ last.args = <<One>>
    /\ last.out = Val(Zero)

\* the squared normal draw and the cubed v of the iteration under test
TestX2 == Mul(x, x)
TestV3 == Mul(Mul(v, v), v)
\* the uniform u fails the squeeze test u < 1 - 0.0331 x^2
FailsSqueeze(u) ==
    ~Lt(u, Sub(One, Mul(Mul(FromRatio(331, 10000), TestX2), TestX2)))
\* ln(u) < 0.5 x + d (1 - v + ln(v)), the test of Marsaglia and Tsang
MarsagliaTsang(u) ==
    Lt(Ln(u), Add(Mul(FromRatio(1, 2), TestX2),
                  Mul(SampleD(dist.shape),
                      Add(Sub(One, TestV3), Ln(TestV3)))))

\* C12: in the sampling loop a candidate that fails the squeeze test is
\* accepted, and afix * d * v / rate returned, exactly when
\* ln(u) < 0.5 x + d (1 - v + ln(v)), x the squared normal draw and v the
\* cube of 1 + c * normal; otherwise the loop goes on with new draws.
C12_SecondTier ==
    [][\A u \in Uniforms :
          (SampleUniform(u) /\ FailsSqueeze(u)) =>
              IF MarsagliaTsang(u)
              THEN /\ spc' = "idle"
                   /\ last'.out = Val(SampleValue(afix, dist.shape,
                                                  dist.rate, TestV3))
              ELSE spc' = "loop"]_vars

\* C13: a call of sample with a finite rate takes, for shape < 1, exactly one
\* uniform draw before any normal draw and, for shape >= 1, none; every
\* iteration of the loop then takes one or more normal draws, drawing again
\* while 1 + c * x <= 0 so that v > 0 when it is cubed, and after them exactly
\* one uniform draw; the call takes no draw after the iteration that accepts.
C13_DrawOrder ==
    (last.op = "sample" /\ last.self.rate # PInf) =>
        LET s == last.draws
            n == Len(last.draws)
            k == IF Lt(last.self.shape, One) THEN 1 ELSE 0
        IN  /\ (k = 1 /\ n = 0) <=> spc = "afix"
            /\ (k = 1 /\ n >= 1) => s[1] = "U"
            /\ n > k => s[k + 1] = "N"
            /\ \A i \in (k + 2)..n : s[i] = "U" => s[i - 1] = "N"
            /\ spc = "while" => Le(v, Zero)
            /\ spc = "test" => Gt(v, Zero)
            /\ (spc \in {"while", "test"} /\ n < MaxDraws) => s[n] = "N"
            /\ (spc = "loop" /\ n < MaxDraws) => (n = k \/ s[n] = "U")
            /\ last.out.kind = "none" <=> spc # "idle"
            /\ (last.out.kind = "value" /\ n < MaxDraws) =>
                   (n > k /\ s[n] = "U")

\* a finished call for shape 1/2: the uniform draw of afix, a normal draw
\* with 1 + c * x <= 0, the draw that replaces it and the accepting uniform
C13_Witness ==
    /\ last.op = "sample"
    /\ last.self = Gamma(FromRatio(1, 2), One)
    /\ last.out.kind = "value"
    /\ last.draws = <<"U", "N", "N", "U">>

\* a step of a running call returns only from the two tests that follow the
\* uniform draw of an iteration, at once when one of them passes, and then
\* with the value made from the v of that iteration
C14_ReturnsOnAccept ==
    [][/\ spc \in {"afix", "loop", "while"} => spc' # "idle"
       /\ \A u \in Uniforms :
              SampleUniform(u) =>
                  IF ~FailsSqueeze(u)
                        \/ SecondTest(u, TestX2, TestV3, dist.shape)
                  THEN /\ spc' = "idle"
                       /\ last'.out = Val(SampleValue(afix, dist.shape,
                                                      dist.rate, TestV3))
                  ELSE /\ spc' = "loop"
                       /\ last'.out = NoOutcome]_vars

Prefactor(a, b, p) ==
    IF p = Zero \/ p = One
    THEN Zero
    ELSE Exp(Add(Add(Sub(Sub(ln_gamma(Add(a, b)), ln_gamma(a)), ln_gamma(b)),
                     Mul(a, Ln(p))),
                 Mul(b, Ln(Sub(One, p)))))

\* the run of the continued fraction on (a, b, p): how the loop ended
ContinuedFraction(a, b, p) ==
    LET d == Div(One, Floor(Sub(One, Div(Mul(Add(a, b), p), Add(a, One)))))
    IN  Lentz(FALSE, Zero, a, b, p, 1,
              [c |-> One, d |-> d, h |-> d, del |-> Zero])

\* C15: beta_reg(a, b, x) applies the symmetry transform exactly when
\* x >= (a + 1) / (a + b + 2), a test made once on the arguments as passed:
\* it then runs the continued fraction on (b, a, 1 - x) and returns
\* 1 - bt * h / b, and otherwise runs it on (a, b, x) and returns bt * h / a.
C15_Symmetry ==
    (last.op = "beta_reg" /\ last.out.kind = "value") =>
        LET a == last.args[1]
            b == last.args[2]
            p == last.args[3]
            bt == Prefactor(a, b, p)
            swap == Ge(p, Div(Add(a, One), Add(Add(a, b), Two)))
        IN  /\ BetaRegRun(a, b, p).symm = swap
            /\ swap =>
                 last.out.val =
                     Sub(One,
                         Div(Mul(bt, ContinuedFraction(b, a, Sub(One, p)).st.h),
                             b))
            /\ ~swap =>
                 last.out.val =
                     Div(Mul(bt, ContinuedFraction(a, b, p).st.h), a)

\* beta_reg(1, 2, 1/2) is computed with the transform: 1/2 >= 2/5
C15_Witness ==
    /\ last.op = "beta_reg"
    /\ last.args = <<One, Two, FromRatio(1, 2)>>
    /\ last.out.kind = "value"
    /\ BetaRegRun(One, Two, FromRatio(1, 2)).symm

\* the sequence acc of the values c, d, h, del that the passes so far left,
\* one after the other, with those of the passes up to pass last_m added:
\* pass Len(acc) is the next, and no pass ends the loop.  (The test st = st
\* has the values of a pass computed before the next pass starts.)
RECURSIVE Passes(_, _, _, _, _)
Passes(a, b, p, last_m, acc) ==
    LET st == LentzStep(a, b, p, Len(acc), acc[Len(acc)])
    IN  IF st = st /\ Len(acc) >= last_m
        THEN Append(acc, st)
        ELSE Passes(a, b, p, last_m, Append(acc, st))

\* the same up to pass 140, in stretches of 20
RECURSIVE AllPasses(_, _, _, _)
AllPasses(a, b, p, acc) ==
    IF Len(acc) > 140 THEN acc
    ELSE AllPasses(a, b, p, Passes(a, b, p, Len(acc) + 19, acc))

\* what 140 passes on (a, b, p) leave: element m + 1 is left by pass m,
\* element 1 is what the loop starts from
Trajectory(a, b, p) ==
    LET d == Div(One, Floor(Sub(One, Div(Mul(Add(a, b), p), Add(a, One)))))
    IN  AllPasses(a, b, p, <<[c |-> One, d |-> d, h |-> d, del |-> Zero]>>)

\* |del - 1| <= eps
Within(del) == Le(Abs(Sub(del, One)), eps)

\* C16: the continued fraction of beta_reg ends after at most 140
\* iterations: it returns at the first iteration with |del - 1| <= eps, and
\* when no iteration of the 140 has it, returns the value of the same
\* formula, bt * h / a or 1 - bt * h / a under the symmetry transform, from
\* the last h, as a number like any other: no panic and no error.
C16_IterationCap ==
    (/\ last.op = "beta_reg"
     /\ ~Negative(last.args[1]) /\ ~Negative(last.args[2])
     /\ ~OutsideUnit(last.args[3])) =>
        LET run == BetaRegRun(last.args[1], last.args[2], last.args[3])
            a == IF run.symm THEN last.args[2] ELSE last.args[1]
            b == IF run.symm THEN last.args[1] ELSE last.args[2]
            p == IF run.symm THEN Sub(One, last.args[3]) ELSE last.args[3]
            bt == Prefactor(last.args[1], last.args[2], last.args[3])
            tr == Trajectory(a, b, p)
            hits == {m \in 1..140 : Within(tr[m + 1].del)}
            h == tr[run.iters + 1].h
        IN  /\ last.out.kind = "value"
            /\ run.iters \in 1..140
            /\ run.converged <=> hits # {}
            /\ hits # {} => \A m \in hits : run.iters <= m
            /\ hits # {} => run.iters \in hits
            /\ hits = {} => run.iters = 140
            /\ last.out.val =
                   IF run.symm THEN Sub(One, Div(Mul(bt, h), a))
                   ELSE Div(Mul(bt, h), a)

\* beta_reg(+inf, 1, 1/2) runs all 140 iterations, none of them with
\* |del - 1| <= eps, and returns a value
C16_Witness ==
    /\ last.op = "beta_reg"
    /\ last.args = <<PInf, One, FromRatio(1, 2)>>
    /\ last.out.kind = "value"
    /\ BetaRegRun(PInf, One, FromRatio(1, 2)).iters = 140
    /\ ~BetaRegRun(PInf, One, FromRatio(1, 2)).converged

\* the last call is beta_reg(a, b, x) with x == 0 or x == 1, past the
\* assertions
EndpointCall ==
    /\ last.op = "beta_reg"
    /\ ~Negative(last.args[1]) /\ ~Negative(last.args[2])
    /\ last.args[3] \in {Zero, One}

=============================================================================
